---- MODULE Spec2Model ----
(***************************************************************************)
(* A model of validation-fields.ts (the validForm() validator set that     *)
(* starts at line 234 of src/src/validation-fields.ts).                    *)
(*                                                                         *)
(* Every validator is a pure function of a string.  Strings are modelled   *)
(* as sequences of one-character strings, so that replace(), split(),      *)
(* charAt(), parseInt() and the regular expressions are computed the way   *)
(* the code computes them.  The state is one call site: the string handed  *)
(* to the library, the ambient clock, the calls made so far, the argument  *)
(* of the last call and its return value.                                  *)
(***************************************************************************)
EXTENDS Integers, Sequences, FiniteSets, TLC

VARIABLES
    input,      \* the string the caller holds
    format,     \* the format argument of date()
    now,        \* the clock read by new Date(): [day, sec, ms]
    host,       \* the host date parser's verdict on strings of no known shape
    calls,      \* the validators called so far, oldest first
    arg,        \* the argument of the last call
    result      \* the value the last call returned

vars == <<input, format, now, host, calls, arg, result>>

(***************************************************************************)
(* Bounds of the model.                                                    *)
(***************************************************************************)
MaxCpfDigits == 12      \* digits of the longest CPF input
MaxPhoneDigits == 12    \* digits of the longest phone input
MaxCore == 6            \* characters of the longest e-mail core
MaxPad == 2             \* longest run of surrounding whitespace
NumYears == 2           \* calendar years the date inputs span
MaxCalls == 2           \* converter calls a caller chains

(***************************************************************************)
(* JavaScript values.                                                      *)
(***************************************************************************)
\* NaN: every number the validators compute is >= 0, so -1 is free to stand
\* for the one value that is not a number.
NaN == -1

Bool(b) == [type |-> "boolean", val |-> b]
Str(s)  == [type |-> "string", val |-> s]
Undefined == [type |-> "undefined", val |-> <<>>]

IsBool(r, b) == r.type = "boolean" /\ r.val = b
IsStr(r, s)  == r.type = "string" /\ r.val = s

\* a !== b on numbers: NaN differs from everything, itself included
StrictNotEqual(a, b) == a = NaN \/ b = NaN \/ a # b

(***************************************************************************)
(* Characters and strings.                                                 *)
(***************************************************************************)
DigitChars == <<"0", "1", "2", "3", "4", "5", "6", "7", "8", "9">>

IsDigit(c) == \E k \in 1..10 : DigitChars[k] = c

DigitVal(c) == (CHOOSE k \in 1..10 : DigitChars[k] = c) - 1

DigitChar(v) == DigitChars[v + 1]

\* \s, on the whitespace the inputs use
IsSpace(c) == c \in {" ", "\t", "\n"}

\* [a-zA-Z], on the letters the inputs use
IsAlpha(c) == c \in {"a", "b", "c", "o", "A", "Z"}

\* the class [-0-9a-zA-Z.+_] of the e-mail filter
IsEmailClass(c) == IsDigit(c) \/ IsAlpha(c) \/ c \in {"-", ".", "+", "_"}

\* String.prototype.charAt: the empty string past the end
CharAt(s, i) == IF i >= 0 /\ i < Len(s) THEN s[i + 1] ELSE ""

\* parseInt of one character (or of the empty string)
ParseIntEmptyIsZero(c) == IF c = "" THEN 0 ELSE IF IsDigit(c) THEN DigitVal(c) ELSE NaN
ParseInt(c) == IF c # "" /\ IsDigit(c) THEN DigitVal(c) ELSE NaN

\* s.replace(/[^\d]+/g, '') and s.replace(/[^0-9]+/g, ''): the digits of s
ReplaceNonDigits(s) == SelectSeq(s, IsDigit)

Take(s, n) == SubSeq(s, 1, IF Len(s) < n THEN Len(s) ELSE n)

Repeat(c, n) == [k \in 1..n |-> c]

(***************************************************************************)
(* isValidCpf                                                              *)
(***************************************************************************)
\* add += parseInt(cpf.charAt(i)) * (w - i) for i in 0..n-1, from add = 0
RECURSIVE CpfAdd(_, _, _)
CpfAdd(cpf, n, w) ==
    IF n = 0 THEN 0
    ELSE LET rest == CpfAdd(cpf, n - 1, w)
             d == ParseInt(CharAt(cpf, n - 1))
         IN IF rest = NaN \/ d = NaN THEN NaN ELSE rest + d * (w - (n - 1))

\* rev = 11 - (add % 11); if (rev === 10 || rev === 11) rev = 0
CpfRevOnlyTen(add) ==
    IF add = NaN THEN NaN
    ELSE LET rev == 11 - (add % 11) IN IF rev = 10 THEN 0 ELSE rev
CpfRev(add) ==
    IF add = NaN THEN NaN
    ELSE LET rev == 11 - (add % 11) IN IF rev = 10 \/ rev = 11 THEN 0 ELSE rev

AllSameDigits(s) == Len(s) >= 1 /\ \A k \in 1..Len(s) : s[k] = s[1]

isValidCpfCore(cpf) ==
    IF StrictNotEqual(CpfRev(CpfAdd(cpf, 9, 10)), ParseInt(CharAt(cpf, 9)))
    THEN FALSE
    ELSE IF StrictNotEqual(CpfRev(CpfAdd(cpf, 10, 11)), ParseInt(CharAt(cpf, 10)))
    THEN FALSE
    ELSE TRUE

isValidCpfRejectSame(s) ==
    LET cpf == ReplaceNonDigits(s)
    IN ~AllSameDigits(cpf) /\ isValidCpfCore(cpf)
isValidCpfExactLength(s) ==
    LET cpf == ReplaceNonDigits(s)
    IN Len(cpf) = 11 /\ isValidCpfCore(cpf)
isValidCpf(s) ==
    LET cpf == ReplaceNonDigits(s)
    IN isValidCpfCore(cpf)

(***************************************************************************)
(* The CPF inputs: digit strings of 0..MaxCpfDigits digits, bare or        *)
(* punctuated.                                                             *)
(***************************************************************************)
BodyDigits == {1, 4, 7}
ExtraDigits == {0, 5}

CpfBodies ==
    { <<DigitChar(a), DigitChar(a), DigitChar(a),
        DigitChar(b), DigitChar(b), DigitChar(b),
        DigitChar(c), DigitChar(c), DigitChar(c)>> : a \in BodyDigits, b \in BodyDigits, c \in BodyDigits }

CpfExtras ==
    UNION { [1..n -> {DigitChar(e) : e \in ExtraDigits}] : n \in 0..(MaxCpfDigits - 11) }

CpfFull ==
    { b \o <<DigitChar(c[1]), DigitChar(c[2])>> \o x :
        b \in CpfBodies, c \in (0..9) \X (0..9), x \in CpfExtras }
    \cup { Repeat(DigitChar(d), n) : d \in 0..9, n \in 0..MaxCpfDigits }

CpfDigitStrings == { Take(s, n) : s \in CpfFull, n \in 0..MaxCpfDigits }

\* "bare": the digits alone; "standard": 111.444.777-35; "phone":
\* (11) 333-34444; "spaced": a non-digit character before every digit and
\* one after the last
RECURSIVE Punctuate(_, _)
Punctuate(ds, style) ==
    IF Len(ds) = 0 THEN (IF style = "spaced" THEN <<"x">> ELSE <<>>)
    ELSE LET n == Len(ds)
             front == Punctuate(SubSeq(ds, 1, n - 1), IF style = "spaced" THEN "between" ELSE style)
             last == ds[n]
         IN CASE style = "standard" /\ n \in {4, 7} -> front \o <<".", last>>
              [] style = "standard" /\ n = 10 -> front \o <<"-", last>>
              [] style = "phone" /\ n = 1 -> front \o <<"(", last>>
              [] style = "phone" /\ n = 3 -> front \o <<")", " ", last>>
              [] style = "phone" /\ n = 7 -> front \o <<"-", last>>
              [] style = "spaced" -> front \o <<" ", last, "x">>
              [] style = "between" -> front \o <<" ", last>>
              [] OTHER -> front \o <<last>>

CpfStyles == {"bare", "standard", "spaced"}

CpfInputs == { Punctuate(ds, st) : ds \in CpfDigitStrings, st \in CpfStyles }

Idle == /\ calls = <<>>
        /\ arg = <<>>
        /\ result = Undefined

NoClock == [day |-> 0, sec |-> 0, ms |-> 0]

InitCpf ==
    /\ input \in CpfInputs
    /\ format = "db"
    /\ now = NoClock
    /\ host = FALSE
    /\ Idle

CallIsValidCpf ==
    /\ calls = <<>>
    /\ calls' = <<"isValidCpf">>
    /\ arg' = input
    /\ result' = Bool(isValidCpf(input))
    /\ UNCHANGED <<input, format, now, host>>

NextCpf == CallIsValidCpf

SpecCpf == InitCpf /\ [][NextCpf]_vars

Called(f) == calls = <<f>>

(***************************************************************************)
(* isNumber, isLandline, isCellPhone                                       *)
(***************************************************************************)
\* /^[0-9]+$/.test(s)
isNumber(s) == Len(s) >= 1 /\ \A k \in 1..Len(s) : IsDigit(s[k])

\* a regular expression ^[a-b]{n}[c-d]{m}...$ as its classes, one per
\* character: <<lo, hi, count>> stands for [lo-hi]{count}
RECURSIVE Classes(_)
Classes(pattern) ==
    IF pattern = <<>> THEN <<>>
    ELSE [k \in 1..pattern[1][3] |-> <<pattern[1][1], pattern[1][2]>>] \o Classes(Tail(pattern))

RegexTest(pattern, s) ==
    LET cs == Classes(pattern)
    IN /\ Len(s) = Len(cs)
       /\ \A k \in 1..Len(s) :
             IsDigit(s[k]) /\ DigitVal(s[k]) >= cs[k][1] /\ DigitVal(s[k]) <= cs[k][2]

\* /^[1-9]{2}[2-5]{1}[0-9]{3}[0-9]{4}$/
LandlineRegex == << <<1, 9, 2>>, <<2, 5, 1>>, <<0, 9, 3>>, <<0, 9, 4>> >>

\* /^[1-9]{2}[6-9]{1}[0-9]{8}$/
CellPhoneRegex == << <<1, 9, 2>>, <<6, 9, 1>>, <<0, 9, 8>> >>

\* /^(.)\1+$/.test(s): one character, then the same character once or more
AreAllDigitsSameOff(s) == FALSE
AreAllDigitsSame(s) == Len(s) >= 2 /\ \A k \in 2..Len(s) : s[k] = s[1]

isLandline(s) ==
    LET digits == ReplaceNonDigits(s)
    IN IF ~isNumber(digits) THEN FALSE
       ELSE IF AreAllDigitsSame(digits) THEN FALSE
       ELSE RegexTest(LandlineRegex, digits)

CellPhoneRegexAnyPrefix == << <<1, 9, 2>>, <<0, 9, 1>>, <<0, 9, 8>> >>
isCellPhoneAnyPrefix(s) ==
    LET digits == ReplaceNonDigits(s)
    IN IF ~isNumber(digits) THEN FALSE
       ELSE IF AreAllDigitsSame(digits) THEN FALSE
       ELSE RegexTest(CellPhoneRegexAnyPrefix, digits)
isCellPhone(s) ==
    LET digits == ReplaceNonDigits(s)
    IN IF ~isNumber(digits) THEN FALSE
       ELSE IF AreAllDigitsSame(digits) THEN FALSE
       ELSE RegexTest(CellPhoneRegex, digits)

(***************************************************************************)
(* The phone inputs: 0..MaxPhoneDigits digits, bare or punctuated.         *)
(***************************************************************************)
AreaDigits == {0, 1, 2, 9}
TypeDigits == {1, 2, 5, 6, 9}
LineDigits == {0, 2, 9}

PhoneFull ==
    { <<DigitChar(a), DigitChar(b), DigitChar(c), DigitChar(u)>>
          \o Repeat(DigitChar(v), MaxPhoneDigits - 4) :
        a \in AreaDigits, b \in AreaDigits, c \in TypeDigits,
        u \in LineDigits, v \in LineDigits }

PhoneDigitStrings == { Take(s, n) : s \in PhoneFull, n \in 0..MaxPhoneDigits }

PhoneStyles == {"bare", "phone", "spaced"}

PhoneInputs == { Punctuate(ds, st) : ds \in PhoneDigitStrings, st \in PhoneStyles }

InitPhone ==
    /\ input \in PhoneInputs
    /\ format = "db"
    /\ now = NoClock
    /\ host = FALSE
    /\ Idle

CallIsLandline ==
    /\ calls = <<>>
    /\ calls' = <<"isLandline">>
    /\ arg' = input
    /\ result' = Bool(isLandline(input))
    /\ UNCHANGED <<input, format, now, host>>

CallIsCellPhone ==
    /\ calls = <<>>
    /\ calls' = <<"isCellPhone">>
    /\ arg' = input
    /\ result' = Bool(isCellPhone(input))
    /\ UNCHANGED <<input, format, now, host>>

NextPhone == CallIsLandline \/ CallIsCellPhone

SpecPhone == InitPhone /\ [][NextPhone]_vars


(***************************************************************************)
(* email                                                                   *)
(***************************************************************************)
LeadingSpaces(s) ==
    CHOOSE n \in 0..Len(s) :
        /\ \A k \in 1..n : IsSpace(s[k])
        /\ n < Len(s) => ~IsSpace(s[n + 1])

TrailingSpaces(s) ==
    CHOOSE n \in 0..Len(s) :
        /\ \A k \in (Len(s) - n + 1)..Len(s) : IsSpace(s[k])
        /\ n < Len(s) => ~IsSpace(s[Len(s) - n])

\* s.replace(/^\s+|\s+$/, ''): without the g flag only the first match is
\* replaced, and the leftmost match is the leading run when there is one,
\* the trailing run otherwise
ReplaceFirstSpaces(s) ==
    IF LeadingSpaces(s) > 0 THEN SubSeq(s, LeadingSpaces(s) + 1, Len(s))
    ELSE SubSeq(s, 1, Len(s) - TrailingSpaces(s))

\* /^[-0-9a-zA-Z.+_]+@[-0-9a-zA-Z.+_]+\.[a-zA-Z]{2,4}$/i.test(e)
EmailFilter(e) ==
    \E at \in 2..Len(e) : \E tld \in 2..4 :
        LET dot == Len(e) - tld
        IN /\ e[at] = "@"
           /\ \A k \in 1..(at - 1) : IsEmailClass(e[k])
           /\ dot >= at + 2
           /\ \A k \in (at + 1)..(dot - 1) : IsEmailClass(e[k])
           /\ e[dot] = "."
           /\ \A k \in (dot + 1)..Len(e) : IsAlpha(e[k])

email(s) == EmailFilter(ReplaceFirstSpaces(s))

(***************************************************************************)
(* The e-mail inputs: a core of at most MaxCore characters between two     *)
(* runs of at most MaxPad blanks.                                          *)
(***************************************************************************)
EmailChars == {"a", "@", ".", " "}

EmailCores == UNION { [1..n -> EmailChars] : n \in 0..MaxCore }

EmailInputs ==
    { Repeat(" ", l) \o c \o Repeat(" ", r) :
        c \in EmailCores, l \in 0..MaxPad, r \in 0..MaxPad }

InitEmail ==
    /\ input \in EmailInputs
    /\ format = "db"
    /\ now = NoClock
    /\ host = FALSE
    /\ Idle

CallEmail ==
    /\ calls = <<>>
    /\ calls' = <<"email">>
    /\ arg' = input
    /\ result' = Bool(email(input))
    /\ UNCHANGED <<input, format, now, host>>

NextEmail == CallEmail

SpecEmail == InitEmail /\ [][NextEmail]_vars


(***************************************************************************)
(* Dates: split(), template literals and the host's Date parser.           *)
(***************************************************************************)
\* String.prototype.split on a one-character separator
RECURSIVE Split(_, _)
Split(s, sep) ==
    IF \A k \in 1..Len(s) : s[k] # sep THEN <<s>>
    ELSE LET k == CHOOSE j \in 1..Len(s) :
                      s[j] = sep /\ \A m \in 1..(j - 1) : s[m] # sep
         IN <<SubSeq(s, 1, k - 1)>> \o Split(SubSeq(s, k + 1, Len(s)), sep)

\* what a template literal prints for an array element that is not there
UndefinedText == <<"u", "n", "d", "e", "f", "i", "n", "e", "d">>

\* const [a, b, c] = parts: the k-th name, as `${...}` prints it
Element(parts, k) == IF k <= Len(parts) THEN parts[k] ELSE UndefinedText

\* the number a run of digits denotes, NaN for anything else
RECURSIVE ParseNumber(_)
ParseNumber(s) ==
    IF Len(s) = 0 THEN NaN
    ELSE IF ~IsDigit(s[Len(s)]) THEN NaN
    ELSE IF Len(s) = 1 THEN DigitVal(s[1])
    ELSE LET front == ParseNumber(SubSeq(s, 1, Len(s) - 1))
         IN IF front = NaN THEN NaN ELSE front * 10 + DigitVal(s[Len(s)])

Years == 2024..(2024 + NumYears - 1)

IsLeap(y) == (y % 4 = 0 /\ y % 100 # 0) \/ y % 400 = 0

DaysInMonth(y, m) ==
    IF m = 2 THEN (IF IsLeap(y) THEN 29 ELSE 28)
    ELSE IF m \in {4, 6, 9, 11} THEN 30 ELSE 31

RECURSIVE DaysBeforeYear(_)
DaysBeforeYear(y) ==
    IF y <= 2024 THEN 0
    ELSE DaysBeforeYear(y - 1) + (IF IsLeap(y - 1) THEN 366 ELSE 365)

RECURSIVE DaysBeforeMonth(_, _)
DaysBeforeMonth(y, m) ==
    IF m <= 1 THEN 0 ELSE DaysBeforeMonth(y, m - 1) + DaysInMonth(y, m - 1)

\* the day number of year-month-day, counted from the first day of the
\* first modelled year; a day past the end of its month runs into the next
DayIndex(y, m, d) == DaysBeforeYear(y) + DaysBeforeMonth(y, m) + (d - 1)

Invalid == [valid |-> FALSE, day |-> 0]

\* the date the host reads from year, month and day fields: Node's parser
\* takes a month in 1..12 and a day in 1..31, and normalises a day that
\* overflows its month
ComposeDay(y, m, d) ==
    IF y = NaN \/ m = NaN \/ d = NaN THEN Invalid
    ELSE IF m < 1 \/ m > 12 \/ d < 1 \/ d > 31 THEN Invalid
    ELSE [valid |-> TRUE, day |-> DayIndex(y, m, d)]

HasShape(parts, a, b, c) ==
    /\ Len(parts) = 3
    /\ Len(parts[1]) = a /\ Len(parts[2]) = b /\ Len(parts[3]) = c
    /\ \A k \in 1..3 : ParseNumber(parts[k]) # NaN

\* new Date(s) for a date without a time: YYYY-MM-DD is read as year, month,
\* day; NN/NN/YYYY is read as month, day, year.  What the host makes of any
\* other string is the host's choice
ParseDate(s) ==
    LET dash == Split(s, "-")
        slash == Split(s, "/")
    IN IF HasShape(dash, 4, 2, 2)
       THEN ComposeDay(ParseNumber(dash[1]), ParseNumber(dash[2]), ParseNumber(dash[3]))
       ELSE IF HasShape(slash, 2, 2, 4)
       THEN ComposeDay(ParseNumber(slash[3]), ParseNumber(slash[1]), ParseNumber(slash[2]))
       ELSE [valid |-> host, day |-> 0]

Pad2(n) == <<DigitChar(n \div 10), DigitChar(n % 10)>>

Pad4(n) == Pad2(n \div 100) \o Pad2(n % 100)

\* now.toLocaleTimeString() in Node's default locale, "4:32:12 PM": the hour
\* on the 12-hour clock and unpadded, minutes, seconds and the half of the
\* day; the clock's milliseconds are not printed
ToLocaleTimeString(t) ==
    LET h == t.sec \div 3600
        h12 == IF h % 12 = 0 THEN 12 ELSE h % 12
        hour == IF h12 < 10 THEN <<DigitChar(h12)>> ELSE Pad2(h12)
    IN hour \o <<":">> \o Pad2((t.sec % 3600) \div 60) \o <<":">> \o Pad2(t.sec % 60)
            \o <<" ">> \o (IF h < 12 THEN <<"A", "M">> ELSE <<"P", "M">>)

\* the second of the day that "h:mm:ss" and "AM" or "PM" denote
ParseTime(s, half) ==
    LET f == Split(s, ":")
    IN IF Len(f) # 3 \/ half \notin {<<"A", "M">>, <<"P", "M">>} THEN NaN
       ELSE LET h == ParseNumber(f[1])
                m == ParseNumber(f[2])
                ss == ParseNumber(f[3])
            IN IF h = NaN \/ m = NaN \/ ss = NaN THEN NaN
               ELSE IF h < 1 \/ h > 12 \/ m > 59 \/ ss > 59 THEN NaN
               ELSE ((h % 12) + (IF half = <<"P", "M">> THEN 12 ELSE 0)) * 3600 + m * 60 + ss

\* a time value, getTime(): whole seconds and milliseconds of local time
\* counted from the first modelled day, or NaN for an invalid date
TimeNaN == [nan |-> TRUE, s |-> 0, ms |-> 0]

Time(s, ms) == [nan |-> FALSE, s |-> s, ms |-> ms]

\* new Date(`${date} ${time}`).getTime(): the date, then the time of day
\* on that date
DateTimeGetTime(s) ==
    LET f == Split(s, " ")
    IN IF Len(f) # 3 THEN TimeNaN
       ELSE LET d == ParseDate(f[1])
                tm == ParseTime(f[2], f[3])
            IN IF ~d.valid \/ tm = NaN THEN TimeNaN
               ELSE Time(d.day * 86400 + tm, 0)

\* now.getTime()
NowGetTime(t) == Time(t.day * 86400 + t.sec, t.ms)

\* a.getTime() > b.getTime(): false when either is NaN
TimeGreaterOrEqual(a, b) ==
    /\ ~a.nan /\ ~b.nan
    /\ (a.s > b.s \/ (a.s = b.s /\ a.ms >= b.ms))
TimeGreaterThan(a, b) ==
    /\ ~a.nan /\ ~b.nan
    /\ (a.s > b.s \/ (a.s = b.s /\ a.ms > b.ms))

NotFuture(text, t) ==
    IF TimeGreaterThan(DateTimeGetTime(text \o <<" ">> \o ToLocaleTimeString(t)), NowGetTime(t))
    THEN FALSE
    ELSE TRUE

date(s, fmt, t) ==
    IF fmt = "pt"
    THEN LET dateBr == Split(s, "/")
         IN IF Len(dateBr) # 3 THEN FALSE
            ELSE NotFuture(dateBr[3] \o <<"-">> \o dateBr[2] \o <<"-">> \o dateBr[1], t)
    ELSE NotFuture(s, t)

isDate(s) == ParseDate(s).valid

formatPtBrDateToEn(s) ==
    IF ~isDate(s) THEN Bool(FALSE)
    ELSE LET parts == Split(s, "/")
         IN Str(Element(parts, 3) \o <<"-">> \o Element(parts, 2) \o <<"-">> \o Element(parts, 1))

formatEnDateToPtBrMonthFirst(s) ==
    IF ~isDate(s) THEN Bool(FALSE)
    ELSE LET parts == Split(s, "-")
         IN Str(Element(parts, 2) \o <<"/">> \o Element(parts, 3) \o <<"/">> \o Element(parts, 1))
formatEnDateToPtBr(s) ==
    IF ~isDate(s) THEN Bool(FALSE)
    ELSE LET parts == Split(s, "-")
         IN Str(Element(parts, 3) \o <<"/">> \o Element(parts, 2) \o <<"/">> \o Element(parts, 1))

(***************************************************************************)
(* The date inputs: every day number 1..31 of every month of the modelled  *)
(* years, written YYYY-MM-DD ("en") or DD/MM/YYYY ("pt").                  *)
(***************************************************************************)
DateText(y, m, d, shape) ==
    IF shape = "en" THEN Pad4(y) \o <<"-">> \o Pad2(m) \o <<"-">> \o Pad2(d)
    ELSE Pad2(d) \o <<"/">> \o Pad2(m) \o <<"/">> \o Pad4(y)

Shapes == {"en", "pt"}

DateInputs ==
    { DateText(y, m, d, sh) : y \in Years, m \in 1..12, d \in 1..31, sh \in Shapes }

\* the clocks: the last day of February and the last day of the first year,
\* at midnight, in the afternoon and in the last second of the day
Clocks ==
    { [day |-> dd, sec |-> s, ms |-> ms] :
        dd \in {DayIndex(2024, 2, 29), DayIndex(2024, 12, 31)},
        s \in {0, 45296, 86399},
        ms \in {0, 999} }

InitDate ==
    /\ input \in DateInputs
    /\ format \in {"db", "pt"}
    /\ now \in Clocks
    /\ host = FALSE
    /\ Idle

CallDate ==
    /\ calls = <<>>
    /\ calls' = <<"date">>
    /\ arg' = input
    /\ result' = Bool(date(input, format, now))
    /\ UNCHANGED <<input, format, now, host>>

NextDate == CallDate

SpecDate == InitDate /\ [][NextDate]_vars

(***************************************************************************)
(* The converters' inputs: the date inputs, months up to 13, and strings   *)
(* with a field missing.  A caller may hand a converter's string result to *)
(* the next converter, MaxCalls calls in all.                              *)
(***************************************************************************)
FormatInputs ==
    { DateText(y, m, d, sh) : y \in Years, m \in 1..13, d \in 1..31, sh \in Shapes }
    \cup { Pad2(m) \o <<"/">> \o Pad4(y) : y \in Years, m \in 1..12 }
    \cup { Pad4(y) \o <<"-">> \o Pad2(m) : y \in Years, m \in 1..12 }

InitFormat ==
    /\ input \in FormatInputs
    /\ format = "db"
    /\ now = NoClock
    /\ host \in BOOLEAN
    /\ Idle

CanCall == Len(calls) < MaxCalls /\ (calls = <<>> \/ result.type = "string")

NextArg == IF calls = <<>> THEN input ELSE result.val

CallFormatPtBrDateToEn ==
    /\ CanCall
    /\ calls' = Append(calls, "formatPtBrDateToEn")
    /\ arg' = NextArg
    /\ result' = formatPtBrDateToEn(NextArg)
    /\ UNCHANGED <<input, format, now, host>>

CallFormatEnDateToPtBr ==
    /\ CanCall
    /\ calls' = Append(calls, "formatEnDateToPtBr")
    /\ arg' = NextArg
    /\ result' = formatEnDateToPtBr(NextArg)
    /\ UNCHANGED <<input, format, now, host>>

NextFormat == CallFormatPtBrDateToEn \/ CallFormatEnDateToPtBr

SpecFormat == InitFormat /\ [][NextFormat]_vars


(***************************************************************************)
(* Claims about isValidCpf, checked under SpecCpf.                         *)
(***************************************************************************)
CpfDigits == ReplaceNonDigits(input)

\* the modulo-11 reference of the specification, on the digits d[0..10]
RECURSIVE RefWeighted(_, _, _)
RefWeighted(d, n, w) ==
    IF n = 0 THEN 0 ELSE RefWeighted(d, n - 1, w) + DigitVal(d[n]) * (w - (n - 1))

RefR(sum) == LET r == 11 - (sum % 11) IN IF r \in {10, 11} THEN 0 ELSE r

RefValid(d) ==
    /\ DigitVal(d[10]) = RefR(RefWeighted(d, 9, 10))
    /\ DigitVal(d[11]) = RefR(RefWeighted(d, 10, 11))

\* C1: when the digit-stripped input is exactly 11 digits, isValidCpf returns
\* true if and only if both check digits match the modulo-11 reference.
C1_CpfChecksum ==
    (Called("isValidCpf") /\ Len(CpfDigits) = 11)
        => result.val = RefValid(CpfDigits)

\* "111.444.777-35" was validated and accepted
C1_Witness ==
    /\ Called("isValidCpf")
    /\ input = <<"1", "1", "1", ".", "4", "4", "4", ".", "7", "7", "7", "-", "3", "5">>
    /\ IsBool(result, TRUE)

\* the string with its last digit character replaced by the digit v
ReplaceLastDigit(s, v) ==
    LET k == CHOOSE j \in 1..Len(s) :
                 IsDigit(s[j]) /\ \A m \in (j + 1)..Len(s) : ~IsDigit(s[m])
    IN [s EXCEPT ![k] = DigitChar(v)]

LastDigit(s) == LET ds == ReplaceNonDigits(s) IN DigitVal(ds[Len(ds)])

\* C6: replacing the last digit of any accepted CPF string by a different
\* digit yields a string that isValidCpf rejects.
C6_FlipLastDigitRejected ==
    (Called("isValidCpf") /\ IsBool(result, TRUE))
        => \A v \in 0..9 :
              v # LastDigit(input) => ~isValidCpf(ReplaceLastDigit(input, v))

\* C8: an input with fewer than 11 digits is answered with the boolean false.
C8_ShortCpfRejected ==
    (Called("isValidCpf") /\ Len(CpfDigits) < 11)
        => IsBool(result, FALSE)

\* ten digits whose first check digit is right: only the comparison with the
\* missing eleventh digit rejects them
C8_Witness ==
    /\ Called("isValidCpf")
    /\ Len(CpfDigits) = 10
    /\ DigitVal(CpfDigits[10]) = RefR(RefWeighted(CpfDigits, 9, 10))
    /\ IsBool(result, FALSE)

\* C9: a CPF of eleven identical digits is accepted, whatever the digit.
C9_AllSameAccepted ==
    (Called("isValidCpf") /\ Len(CpfDigits) = 11 /\ AllSameDigits(CpfDigits))
        => IsBool(result, TRUE)

\* "999.999.999-99" was validated and accepted
C9_Witness ==
    /\ Called("isValidCpf")
    /\ input = <<"9", "9", "9", ".", "9", "9", "9", ".", "9", "9", "9", "-", "9", "9">>
    /\ IsBool(result, TRUE)

\* C10: the result is that of the first 11 digit characters alone: neither
\* the non-digit characters nor the digits after the eleventh change it.
C10_FirstElevenDigitsDecide ==
    Called("isValidCpf")
        => result.val = isValidCpf(Take(CpfDigits, 11))

\* a punctuated input of more than 11 digits was accepted
C10_Witness ==
    /\ Called("isValidCpf")
    /\ Len(CpfDigits) > 11
    /\ Len(input) > Len(CpfDigits)
    /\ ~AllSameDigits(CpfDigits)
    /\ IsBool(result, TRUE)

(***************************************************************************)
(* Claims about the phone validators, checked under SpecPhone.             *)
(***************************************************************************)
PhoneDigits == ReplaceNonDigits(input)

DigitIn(ds, k, lo, hi) == DigitVal(ds[k]) \in lo..hi

NotAllIdentical(ds) == \E k \in 1..Len(ds) : ds[k] # ds[1]

\* C3: isLandline returns true exactly for 10 digits, the first two in 1-9,
\* the third in 2-5, not all identical.
C3_LandlineExact ==
    Called("isLandline")
        => result.val = ( /\ Len(PhoneDigits) = 10
                          /\ DigitIn(PhoneDigits, 1, 1, 9)
                          /\ DigitIn(PhoneDigits, 2, 1, 9)
                          /\ DigitIn(PhoneDigits, 3, 2, 5)
                          /\ NotAllIdentical(PhoneDigits) )

\* ten identical digits of landline shape, "2222222222", were rejected
C3_Witness ==
    /\ Called("isLandline")
    /\ PhoneDigits = Repeat("2", 10)
    /\ IsBool(result, FALSE)

\* C4: isCellPhone returns true exactly for 11 digits, the first two in 1-9,
\* the third in 6-9, not all identical.
C4_CellPhoneExact ==
    Called("isCellPhone")
        => result.val = ( /\ Len(PhoneDigits) = 11
                          /\ DigitIn(PhoneDigits, 1, 1, 9)
                          /\ DigitIn(PhoneDigits, 2, 1, 9)
                          /\ DigitIn(PhoneDigits, 3, 6, 9)
                          /\ NotAllIdentical(PhoneDigits) )

\* a punctuated 11-digit mobile number was accepted
C4_Witness ==
    /\ Called("isCellPhone")
    /\ Len(PhoneDigits) = 11
    /\ Len(input) > 11
    /\ IsBool(result, TRUE)

(***************************************************************************)
(* Claims about email, checked under SpecEmail.                            *)
(***************************************************************************)
\* the string without its leading and its trailing whitespace
Trim(s) == SubSeq(s, LeadingSpaces(s) + 1,
                  IF LeadingSpaces(s) = Len(s) THEN Len(s) ELSE Len(s) - TrailingSpaces(s))

\* C2: email(s) equals email of s with all leading and all trailing
\* whitespace removed.
C2_EmailIgnoresSurroundingSpace ==
    Called("email") => result.val = email(Trim(input))

(***************************************************************************)
(* Claims about date, checked under SpecDate.                              *)
(***************************************************************************)
\* the fields of a string written in the shape its format expects
InputShape == IF Len(input) = 10 /\ input[5] = "-" THEN "en" ELSE "pt"

FieldYear == IF InputShape = "en" THEN ParseNumber(SubSeq(input, 1, 4))
             ELSE ParseNumber(SubSeq(input, 7, 10))

FieldMonth == IF InputShape = "en" THEN ParseNumber(SubSeq(input, 6, 7))
              ELSE ParseNumber(SubSeq(input, 4, 5))

FieldDay == IF InputShape = "en" THEN ParseNumber(SubSeq(input, 9, 10))
            ELSE ParseNumber(SubSeq(input, 1, 2))

IsCalendarDate == FieldMonth \in 1..12 /\ FieldDay \in 1..DaysInMonth(FieldYear, FieldMonth)

FormatMatchesShape == (format = "pt") = (InputShape = "pt")

InputDay == DayIndex(FieldYear, FieldMonth, FieldDay)

\* the instant of s seconds and ms milliseconds is after the clock's
StrictlyAfterNow(s, ms) ==
    LET n == now.day * 86400 + now.sec
    IN s > n \/ (s = n /\ ms > now.ms)

\* C5: for a calendar date written in the shape of its format, date returns
\* false when the date at the current time of day is after the current
\* moment and true otherwise: every day after today is rejected, today and
\* every earlier day are accepted.
C5_DateRejectsOnlyFuture ==
    (Called("date") /\ FormatMatchesShape /\ IsCalendarDate)
        => /\ result.val = ~StrictlyAfterNow(InputDay * 86400 + now.sec, 0)
           /\ result.val = (InputDay <= now.day)

\* today's date, written DD/MM/YYYY, was accepted on the exact second
C5_Witness ==
    /\ Called("date")
    /\ format = "pt"
    /\ InputShape = "pt"
    /\ IsCalendarDate
    /\ InputDay = now.day
    /\ now.ms = 0
    /\ IsBool(result, TRUE)

(***************************************************************************)
(* Claims about the converters, checked under SpecFormat.                  *)
(***************************************************************************)
IsPtShaped(s) == HasShape(Split(s, "/"), 2, 2, 4)

\* C7: a DD/MM/YYYY string that formatPtBrDateToEn converts, and whose
\* conversion formatEnDateToPtBr converts, comes back unchanged; and each
\* converter returns false exactly when isDate of its argument is false.
C7_FormatRoundTrip ==
    /\ ( /\ calls = <<"formatPtBrDateToEn", "formatEnDateToPtBr">>
         /\ IsPtShaped(input)
         /\ result.type = "string" )
           => result.val = input
    /\ calls # <<>> => (IsBool(result, FALSE) <=> ~isDate(arg))
    /\ calls # <<>> => (result.type = "string" <=> isDate(arg))

\* "05/12/2024" went through both converters and came back
C7_Witness ==
    /\ calls = <<"formatPtBrDateToEn", "formatEnDateToPtBr">>
    /\ input = <<"0", "5", "/", "1", "2", "/", "2", "0", "2", "4">>
    /\ IsStr(result, input)

====
